---- MODULE Spec2Model ----
(***************************************************************************)
(* AgriWater optimizer: the MILP formulation of the irrigation schedule    *)
(* (build_optimization_problem), its solve and extraction                  *)
(* (optimize_schedule) and the comparison against a baseline               *)
(* (compare_baseline_vs_optimized) of scripts/optimizer.py, and the rows   *)
(* of the baseline table written by generate_pump_data of                  *)
(* scripts/data_generator.py.                                              *)
(*                                                                         *)
(* All quantities are integers (m3/h, kW, FCFA).  A Python optional value  *)
(* is a sequence of length at most one: None is <<>>, a value x is <<x>>.  *)
(* Python hour indices are 0-based; sequences here are 1-based, so hour t  *)
(* is element t + 1.                                                       *)
(***************************************************************************)
EXTENDS Integers, Sequences, FiniteSets, TLC

VARIABLES demand, pumps, tariff, solution, call, cmp, lp, gen

vars == <<demand, pumps, tariff, solution, call, cmp, lp, gen>>

-----------------------------------------------------------------------------
(* Bounds of the model *)

\* longest demand forecast of the exhaustively explored inputs
MaxLen == 3
\* looseness of an incumbent: the number of start-up indicators set to 1
\* without an OFF->ON transition forcing them, plus the total amount by
\* which the penalty variables exceed their smallest admissible value
MaxLoose == 1
\* number of hours a baseline table offered to the comparison covers
MaxBaselineHours == 2
\* optimize_schedule calls made on one optimizer in a session
MaxCalls == 2
\* timestamps handed to generate_pump_data
MaxTimestamps == 3

(* Program constants *)

PeakStart == 7
PeakEnd == 23
StartupCost == 5000
BudgetWindow == 24
MaxStartups == 8
HoursPerMonth == 720

None == <<>>
Some(x) == <<x>>

-----------------------------------------------------------------------------
(* Inputs *)

P1 == [id |-> "P1", capacity_m3h |-> 60, power_kw |-> 45]
P2 == [id |-> "P2", capacity_m3h |-> 50, power_kw |-> 38]

Rosters == { <<>>, <<P1>>, <<P2>>, <<P1, P2>> }

\* every tariff carries the start-up cost of its schedule besides the keys
\* the optimizer documents
DemoTariff ==
    [peak |-> 110, offpeak |-> 75, subscribed_power |-> 150, penalty_rate |-> 200,
     startup_cost |-> 5000]

\* the demo tariff with free start-ups
FreeStartTariff == [DemoTariff EXCEPT !.startup_cost = 0]

\* a tighter contract: one pump already exceeds the subscribed power and an
\* hour of P1 costs more than one start-up
TightTariff ==
    [peak |-> 220, offpeak |-> 150, subscribed_power |-> 40, penalty_rate |-> 200,
     startup_cost |-> 5000]

\* the tariffs under which one pump stays within the subscribed power
Tariffs == { DemoTariff, FreeStartTariff }

DemandValues == { 0, 55 }

RECURSIVE SeqsUpTo(_, _)
SeqsUpTo(S, n) ==
    IF n = 0 THEN { <<>> }
    ELSE LET shorter == SeqsUpTo(S, n - 1)
         IN  shorter \cup { Append(s, x) : s \in { q \in shorter : Len(q) = n - 1 }, x \in S }

Forecasts == SeqsUpTo(DemandValues, MaxLen)

\* a day-long forecast for one pump: 8 isolated irrigation hours in the first
\* day, continuous demand until midnight, a pause, and one hour the next day
DayForecast ==
    [i \in 1..26 |->
        LET t == i - 1
        IN  IF t < 16 THEN (IF t % 2 = 1 THEN 55 ELSE 0)
            ELSE IF t = 24 THEN 0 ELSE 55]

\* a forecast reaching into the morning of the second day: steady demand
\* for 32 hours
TwoDayForecast == [i \in 1..32 |-> 55]

\* irrigation every other hour: 9 separate blocks of demand in 18 hours
BlocksForecast == [i \in 1..18 |-> IF i % 2 = 0 THEN 55 ELSE 0]

\* the horizons requested of a forecast: around its length
HorizonArgs(forecast) ==
    IF Len(forecast) <= MaxLen THEN (-1)..(Len(forecast) + 1)
    ELSE (Len(forecast) - 2)..(Len(forecast) + 1)

-----------------------------------------------------------------------------
(* Helpers *)

Max(a, b) == IF a >= b THEN a ELSE b
Min(a, b) == IF a <= b THEN a ELSE b

MinOf(S) == CHOOSE x \in S : \A y \in S : x <= y

\* range(n) of Python: 0 .. n-1, empty when n <= 0
Range(n) == 0..(n - 1)

RECURSIVE SumTo(_, _)
\* f[1] + ... + f[n]
SumTo(f, n) == IF n <= 0 THEN 0 ELSE f[n] + SumTo(f, n - 1)

PumpIds == { pumps[i].id : i \in DOMAIN pumps }

\* lpSum([x[p] * p[field] for p in self.pumps])
PumpSum(x, field) ==
    SumTo([i \in DOMAIN pumps |-> x[pumps[i].id] * pumps[i][field]], Len(pumps))

\* lpSum([x[p] for p in self.pumps])
PumpCount(x) ==
    SumTo([i \in DOMAIN pumps |-> x[pumps[i].id]], Len(pumps))

-----------------------------------------------------------------------------
(* build_optimization_problem: variables, objective, constraints.          *)
(* An assignment is a sequence of H columns, one per hour; column t + 1    *)
(* holds pump_status[(p, t)], startup[(p, t)], total_power[t], penalty[t]. *)

Bin == { 0, 1 }

\* the tariff applied to hour index t
TariffAt(t) ==
    IF PeakStart <= t /\ t < PeakEnd THEN tariff.peak ELSE tariff.offpeak

\* the objective without the energy cost of the hour
HourObjectiveNoEnergy(col, t) ==
    col.penalty + PumpCount(col.startup) * StartupCost

\* the objective without the penalty of the hour
HourObjectiveNoPenalty(col, t) ==
    col.total_power * TariffAt(t) + PumpCount(col.startup) * StartupCost

\* the objective without the cost of the start-ups
HourObjectiveNoStartup(col, t) ==
    col.total_power * TariffAt(t) + col.penalty

\* the objective with the penalty of the hour subtracted
HourObjectiveMinusPenalty(col, t) ==
    col.total_power * TariffAt(t) - col.penalty + PumpCount(col.startup) * StartupCost

\* one hour's term of the objective
HourObjective(col, t) ==
    col.total_power * TariffAt(t)
    + col.penalty
    + PumpCount(col.startup) * StartupCost

RECURSIVE ObjectiveTo(_, _)
ObjectiveTo(a, n) ==
    IF n <= 0 THEN 0 ELSE HourObjective(a[n], n - 1) + ObjectiveTo(a, n - 1)

Objective(a, H) == ObjectiveTo(a, Max(H, 0))

\* the demand constraint with its inequality reversed
DemandSatisfactionReversed(status, t) ==
    PumpSum(status, "capacity_m3h") <= demand[t + 1]

\* the demand constraint without its right-hand side
DemandSatisfactionDropped(status, t) ==
    PumpSum(status, "capacity_m3h") >= 0

\* 1. demand satisfaction at hour t
DemandSatisfaction(status, t) ==
    PumpSum(status, "capacity_m3h") >= demand[t + 1]

\* 2. total power of hour t
TotalPowerCalc(total_power, status) ==
    total_power = PumpSum(status, "power_kw")

\* 3. penalty of hour t
PenaltyCalc(penalty, total_power) ==
    penalty >= tariff.penalty_rate * (total_power - tariff.subscribed_power)

\* start-up detection that ignores the status of the hour before
StartupDetectIgnoringPrevious(startup, status, status_prev) ==
    startup >= status

\* 4. start-up detection of one pump at an hour t >= 1
StartupDetect(startup, status, status_prev) ==
    startup >= status - status_prev

\* the hours whose start-ups constraint 7 sums
BudgetHours(H) == Range(Min(BudgetWindow, H))

\* 7. start-up limit of pump p
MaxStartupsOk(a, p, H) ==
    SumTo([i \in 1..Len(a) |-> IF (i - 1) \in BudgetHours(H) THEN a[i].startup[p] ELSE 0],
          Len(a)) <= MaxStartups

\* lowBound=0 of total_power[t] and penalty[t]
LowBounds(col) == col.total_power >= 0 /\ col.penalty >= 0

Feasible(a, H) ==
    /\ Len(a) = Max(H, 0)
    /\ \A t \in Range(H) :
          /\ a[t + 1].status \in [PumpIds -> Bin]
          /\ a[t + 1].startup \in [PumpIds -> Bin]
          /\ LowBounds(a[t + 1])
          /\ DemandSatisfaction(a[t + 1].status, t)
          /\ TotalPowerCalc(a[t + 1].total_power, a[t + 1].status)
          /\ PenaltyCalc(a[t + 1].penalty, a[t + 1].total_power)
    /\ \A p \in PumpIds : \A t \in 1..(H - 1) :
          StartupDetect(a[t + 1].startup[p], a[t + 1].status[p], a[t].status[p])
    /\ \A p \in PumpIds : MaxStartupsOk(a, p, H)

-----------------------------------------------------------------------------
(* The solver.  The assignments it may return are enumerated hour by hour, *)
(* pruned by the constraints above.  The continuous and the unforced       *)
(* variables range over finitely many values: start-up indicators above    *)
(* their forced value and penalties above their smallest admissible value  *)
(* are limited by MaxLoose; horizons beyond MaxLen are enumerated with     *)
(* tight values only.                                                      *)

LooseBound(H) == IF H <= MaxLen THEN MaxLoose ELSE 0

PowerCandidates == { PumpSum(s, "power_kw") : s \in [PumpIds -> Bin] }

PenaltyCandidates(H) ==
    { f + s : f \in { 0 } \cup { tariff.penalty_rate * (tp - tariff.subscribed_power) :
                                   tp \in PowerCandidates },
              s \in 0..LooseBound(H) }

\* the admissible penalty values of a column's total power
AdmissiblePenalties(candidates, tp) ==
    { x \in candidates : x >= 0 /\ PenaltyCalc(x, tp) }

\* start-up indicators of column c set without a transition forcing them
Spurious(a, c, t) ==
    Cardinality({ p \in PumpIds :
        /\ c.startup[p] = 1
        /\ (t = 0 \/ c.status[p] - a[t].status[p] < 1) })

\* what column c adds to the looseness of the partial assignment a
Looseness(candidates, a, c, t) ==
    Spurious(a, c, t)
    + (c.penalty - MinOf(AdmissiblePenalties(candidates, c.total_power)))

\* the columns that may follow the partial assignment a as hour t
Columns(H, a, t) ==
    LET candidates == PenaltyCandidates(H)
        powers     == PowerCandidates
    IN  UNION { UNION { { [status |-> s, startup |-> u, total_power |-> tp, penalty |-> pn] :
                            tp \in { x \in powers : x >= 0 /\ TotalPowerCalc(x, s) },
                            pn \in UNION { AdmissiblePenalties(candidates, x) :
                                             x \in { y \in powers : TotalPowerCalc(y, s) } } } :
                        u \in { v \in [PumpIds -> Bin] :
                                  t >= 1 => \A p \in PumpIds :
                                      StartupDetect(v[p], s[p], a[t].status[p]) } } :
                s \in { r \in [PumpIds -> Bin] : DemandSatisfaction(r, t) } }

\* a partial assignment is kept with the looseness it has used up
Extensions(H, partial, t) ==
    LET candidates == PenaltyCandidates(H)
    IN  { e \in { [cols  |-> Append(partial.cols, c),
                   loose |-> partial.loose + Looseness(candidates, partial.cols, c, t)] :
                  c \in Columns(H, partial.cols, t) } :
            /\ e.loose <= LooseBound(H)
            /\ \A p \in PumpIds : MaxStartupsOk(e.cols, p, H) }

RECURSIVE Grow(_, _, _)
Grow(H, t, S) ==
    IF t >= H THEN S
    ELSE Grow(H, t + 1, UNION { Extensions(H, partial, t) : partial \in S })

Assignments(H) == { partial.cols : partial \in Grow(H, 0, { [cols |-> <<>>, loose |-> 0] }) }

\* the assignments satisfying every constraint of the problem
FeasibleSet(H) == { a \in Assignments(H) : Feasible(a, H) }

\* the minimisers of the objective
OptimalSet(F, H) ==
    LET best == MinOf({ Objective(a, H) : a \in F })
    IN  { a \in F : Objective(a, H) = best }

\* The feasible region is unbounded only along the penalties, the one kind
\* of variable without an upper bound (pump_status and startup are binary,
\* total_power is fixed by constraint 2): the objective is unbounded below
\* when raising a penalty lowers it.
RayImproves(a, H) ==
    \E i \in 1..Len(a) :
        Objective([a EXCEPT ![i].penalty = a[i].penalty + 1], H) < Objective(a, H)

\* prob.solve(PULP_CBC_CMD(timeLimit=60)) and LpStatus[prob.status]: the
\* proven optimum, or the incumbent held when the time limit elapses, or
\* the proof that no assignment exists or that the objective has no minimum
SolveOutcomes(H) ==
    LET F == FeasibleSet(H)
    IN  IF F = {} THEN { [status |-> "Infeasible", values |-> None, objective |-> 0] }
        ELSE IF RayImproves(CHOOSE a \in F : TRUE, H)
        THEN { [status |-> "Unbounded", values |-> None, objective |-> 0] }
        ELSE { [status |-> "Optimal", values |-> Some(a), objective |-> Objective(a, H)] :
                 a \in OptimalSet(F, H) }
             \cup { [status |-> "Not Solved", values |-> Some(a),
                      objective |-> Objective(a, H)] : a \in F }

-----------------------------------------------------------------------------
(* optimize_schedule: extraction of the solution *)

\* every record written at the peak tariff
RecordTariffAlwaysPeak(t) == tariff.peak

\* the tariff written into the record of hour t
RecordTariff(t) ==
    IF PeakStart <= t /\ t < PeakEnd THEN tariff.peak ELSE tariff.offpeak

RECURSIVE ActiveFrom(_, _)
\* the ids of the pumps i..Len(pumps) whose status exceeds 0.5, in roster order
ActiveFrom(status, i) ==
    IF i > Len(pumps) THEN <<>>
    ELSE (IF 2 * status[pumps[i].id] > 1 THEN << pumps[i].id >> ELSE <<>>)
         \o ActiveFrom(status, i + 1)

\* the record of an hour whose total cost leaves the penalty out
HourDataCostWithoutPenalty(col, t) ==
    [hour             |-> t,
     demand_m3h       |-> demand[t + 1],
     total_power_kw   |-> col.total_power,
     penalty_fcfa     |-> col.penalty,
     tariff_fcfa_kwh  |-> RecordTariff(t),
     pumps_active     |-> ActiveFrom(col.status, 1),
     pumps_status     |-> [p \in PumpIds |-> IF 2 * col.status[p] > 1 THEN "ON" ELSE "OFF"],
     energy_cost_fcfa |-> col.total_power * RecordTariff(t),
     total_cost_fcfa  |-> col.total_power * RecordTariff(t)]

\* hour_data of hour t, from the values of the variables of that hour
HourData(col, t) ==
    LET power    == col.total_power
        pen      == col.penalty
        rate     == RecordTariff(t)
        energy   == power * rate
    IN  [hour             |-> t,
         demand_m3h       |-> demand[t + 1],
         total_power_kw   |-> power,
         penalty_fcfa     |-> pen,
         tariff_fcfa_kwh  |-> rate,
         pumps_active     |-> ActiveFrom(col.status, 1),
         pumps_status     |-> [p \in PumpIds |->
                                 IF 2 * col.status[p] > 1 THEN "ON" ELSE "OFF"],
         energy_cost_fcfa |-> energy,
         total_cost_fcfa  |-> energy + pen]

Extract(a, H, status) ==
    LET schedule == [i \in 1..Max(H, 0) |-> HourData(a[i], i - 1)]
        n        == Len(schedule)
    IN  [schedule        |-> schedule,
         total_cost      |-> SumTo([i \in 1..n |-> schedule[i].total_cost_fcfa], n),
         total_energy    |-> SumTo([i \in 1..n |-> schedule[i].total_power_kw], n),
         total_penalties |-> SumTo([i \in 1..n |-> schedule[i].penalty_fcfa], n),
         status          |-> status]

\* the horizon replaced by the forecast length whatever was requested
EffectiveHorizonAlwaysLen(horizon_hours) == Len(demand)

\* the horizon optimize_schedule hands to build_optimization_problem
EffectiveHorizon(horizon_hours) ==
    IF Len(demand) < horizon_hours THEN Len(demand) ELSE horizon_hours

\* the record of the latest optimize_schedule call: its number, its argument, the
\* horizon it used, whether it printed the truncation warning, the solve
\* status, how it ended and what it returned
NoCall ==
    [n |-> 0, horizon_hours |-> 0, horizon |-> 0, warned |-> FALSE,
     status |-> "", outcome |-> "none", ret |-> None]

\* what one solver outcome makes of the call: the solution stored in the
\* object, the record of the call and the values left in the variables of
\* the problem
Returned(o, base, H) ==
    LET values == Some([horizon |-> H, status |-> o.status, values |-> o.values,
                        objective |-> o.objective])
    IN  IF o.status # "Optimal"
        THEN [solution |-> solution,
              call     |-> [base EXCEPT !.status = o.status],
              lp       |-> values]
        ELSE LET sol == Extract(o.values[1], H, o.status)
             IN  [solution |-> Some(sol),
                  \* the summary line divides by the optimised cost
                  call     |-> IF sol.total_cost = 0
                               THEN [base EXCEPT !.status = o.status,
                                                 !.outcome = "ZeroDivisionError"]
                               ELSE [base EXCEPT !.status = o.status,
                                                 !.ret = Some(sol)],
                  lp       |-> values]

OptimizeSchedule(horizon_hours) ==
    LET warned == Len(demand) < horizon_hours
        H      == EffectiveHorizon(horizon_hours)
        base   == [n |-> call.n + 1,
                   horizon_hours |-> horizon_hours, horizon |-> H, warned |-> warned,
                   status |-> "", outcome |-> "returned", ret |-> None]
    IN  /\ \E o \in SolveOutcomes(H) :
              LET r == Returned(o, base, H)
              IN  /\ solution' = r.solution
                  /\ call' = r.call
                  /\ lp' = r.lp
        /\ UNCHANGED <<demand, pumps, tariff, cmp, gen>>

-----------------------------------------------------------------------------
(* compare_baseline_vs_optimized *)

\* rows of the baseline table: a pump that is OFF and a pump that runs
\* the baseline table has one row per pump of the generator's fleet per
\* hour, whatever roster the optimizer was given
GeneratorPumps == 3

\* the contract of the generator
tariff_peak == 110
tariff_offpeak == 75
subscribed_power == 150
penalty_rate == 200

\* the rows generate_pump_data writes for one timestamp whose hour of day is
\* hour: used holds the power drawn by the pumps that were switched ON, in
\* fleet order (the pumps are activated in sequence until the demand is
\* met); the remaining pumps are OFF. The penalty is divided by the number
\* of active pumps; the loads explored make that quotient exact.
PumpRows(hour, used) ==
    LET num_active  == Len(used)
        total_power == SumTo(used, Len(used))
        rate        == IF hour < 7 \/ hour >= 23 THEN tariff_offpeak ELSE tariff_peak
        penalty     == IF total_power > subscribed_power
                       THEN (total_power - subscribed_power) * penalty_rate
                       ELSE 0
    IN  [k \in 1..GeneratorPumps |->
            LET power_kw == IF k <= num_active THEN used[k] ELSE 0
            IN  [hour             |-> hour,
                 status           |-> IF k <= num_active THEN "ON" ELSE "OFF",
                 power_kw         |-> power_kw,
                 tariff_fcfa_kwh  |-> rate,
                 energy_cost_fcfa |-> power_kw * rate,
                 penalty_fcfa     |-> IF num_active > 0 /\ penalty > 0
                                      THEN penalty \div num_active ELSE 0,
                 total_cost_fcfa  |-> power_kw * rate
                                      + (IF num_active > 0
                                         THEN penalty \div num_active ELSE 0),
                 total_power_kw   |-> total_power]]

\* the hours of the baseline tables given to the comparison: every pump
\* idle, or the first pump ON at 45 kW
HourKinds == { "idle", "busy" }

HourRows(hour, kind) == PumpRows(hour, IF kind = "busy" THEN << 45 >> ELSE <<>>)

RECURSIVE RowsOf(_, _)
\* the table of the hours 0..n-1 of the given kinds, in order
RowsOf(kinds, n) ==
    IF n = 0 THEN <<>> ELSE RowsOf(kinds, n - 1) \o HourRows(n - 1, kinds[n])

Baselines == { RowsOf(kinds, Len(kinds)) : kinds \in SeqsUpTo(HourKinds, MaxBaselineHours) }

\* a / b on numpy scalars: a zero divisor yields inf, -inf or nan and a
\* warning, never an exception; a finite quotient is kept as a fraction
FloatDiv(a, b) ==
    IF b # 0 THEN [kind |-> "finite", num |-> a, den |-> b]
    ELSE IF a > 0 THEN [kind |-> "inf", num |-> 0, den |-> 1]
    ELSE IF a < 0 THEN [kind |-> "-inf", num |-> 0, den |-> 1]
    ELSE [kind |-> "nan", num |-> 0, den |-> 1]

\* x * k for a positive k
FloatTimes(x, k) == [x EXCEPT !.num = x.num * k]

FloatIsZero(x) == x.kind = "finite" /\ x.num = 0

\* DataFrame.head(n) for n >= 0
HeadRows(rows, n) == SubSeq(rows, 1, Min(n, Len(rows)))

Comparison(baseline_data) ==
    LET sol      == solution[1]
        horizon  == Len(sol.schedule)
        subset   == HeadRows(baseline_data, horizon * Len(pumps))
        n        == Len(subset)
        baseline_cost      == SumTo([i \in 1..n |-> subset[i].total_cost_fcfa], n)
        baseline_energy    == SumTo([i \in 1..n |-> subset[i].power_kw], n)
        baseline_penalties == SumTo([i \in 1..n |-> subset[i].penalty_fcfa], n)
        cost_savings       == baseline_cost - sol.total_cost
        monthly            == FloatTimes(FloatDiv(cost_savings, horizon), HoursPerMonth)
    IN  [baseline_cost              |-> baseline_cost,
         optimized_cost             |-> sol.total_cost,
         savings_fcfa               |-> cost_savings,
         savings_percent            |-> FloatTimes(FloatDiv(cost_savings, baseline_cost), 100),
         energy_savings_kwh         |-> baseline_energy - sol.total_energy,
         penalty_reduction          |-> baseline_penalties - sol.total_penalties,
         monthly_savings_projection |-> monthly,
         annual_savings_projection  |-> FloatTimes(monthly, 12),
         schedule                   |-> sol.schedule,
         rows                       |-> n]

\* the record of the latest comparison: the table it was given, kept once
\* the guard on self.solution has passed (before that the table is not
\* looked at), how it ended, what it returned and whether it printed a
\* warning
CompareBaselineVsOptimized(baseline_data) ==
    /\ cmp' = IF solution = None
              THEN Some([baseline_data |-> <<>>,
                         outcome |-> "returned",
                         warned  |-> FALSE,
                         ret     |-> None])
              ELSE Some([baseline_data |-> baseline_data,
                         outcome |-> "returned",
                         warned  |-> FALSE,
                         ret     |-> Some(Comparison(baseline_data))])
    /\ UNCHANGED <<demand, pumps, tariff, solution, call, lp, gen>>

\* the generator before its first timestamp: the hour of day of the next
\* timestamp and the rows written so far
NoData == [ts |-> 0, data |-> <<>>]

-----------------------------------------------------------------------------
(* One request, as run_optimization_demo makes it: the optimizer is        *)
(* constructed, optimize_schedule runs once, and the outcome is compared   *)
(* with baseline tables.                                                   *)

Init ==
    /\ \/ demand \in Forecasts /\ pumps \in Rosters /\ tariff = TightTariff
       \/ demand \in Forecasts /\ pumps = <<P1>> /\ tariff \in Tariffs
       \/ demand = DayForecast /\ pumps = <<P1>> /\ tariff = TightTariff
       \/ demand = TwoDayForecast /\ pumps = <<P1>> /\ tariff = DemoTariff
       \/ demand = BlocksForecast /\ pumps = <<P1>> /\ tariff = TightTariff
    /\ solution = None
    /\ call = NoCall
    /\ cmp = None
    /\ lp = None
    /\ gen = NoData

Optimize ==
    /\ call = NoCall
    /\ cmp = None
    /\ \E horizon_hours \in HorizonArgs(demand) : OptimizeSchedule(horizon_hours)

\* the comparison reads the optimizer and changes nothing of it: a request
\* ends with one comparison
Compare ==
    /\ cmp = None
    /\ \E baseline_data \in Baselines : CompareBaselineVsOptimized(baseline_data)

Next == Optimize \/ Compare

Spec == Init /\ [][Next]_vars

-----------------------------------------------------------------------------
(* A session: one optimizer object serves several optimize_schedule calls  *)
(* with different horizons before its outcome is compared. The forecasts   *)
(* ask 40 or 55 m3/h, so that pump P2 alone can serve some hours and not   *)
(* others.                                                                 *)

SessionForecasts == SeqsUpTo({ 40, 55 }, MaxLen)

InitSession ==
    /\ demand \in SessionForecasts
    /\ pumps \in { <<P1>>, <<P2>> }
    /\ tariff = DemoTariff
    /\ solution = None
    /\ call = NoCall
    /\ cmp = None
    /\ lp = None
    /\ gen = NoData

Reoptimize ==
    /\ call.n < MaxCalls
    /\ cmp = None
    /\ \E horizon_hours \in HorizonArgs(demand) : OptimizeSchedule(horizon_hours)

NextSession == Reoptimize \/ Compare

SpecSession == InitSession /\ [][NextSession]_vars

-----------------------------------------------------------------------------
(* The baseline generator: generate_pump_data walks the timestamps and     *)
(* writes the rows of each. The power a running pump draws depends on      *)
(* random factors (operational variance, leaks), so each timestamp draws   *)
(* one of the loads below: P1 alone, P1 and P2 within the subscribed       *)
(* power, P1 and P2 both leaking and above it, and the three pumps         *)
(* together above it.                                                      *)

Loads == { << 66 >>, << 66, 61 >>, << 80, 75 >>, << 66, 61, 62 >> }

\* the hour of day of the first timestamp
StartHours == { 0, 6, 22 }

InitGenerator ==
    /\ demand = <<>>
    /\ pumps = <<>>
    /\ tariff = DemoTariff
    /\ solution = None
    /\ call = NoCall
    /\ cmp = None
    /\ lp = None
    /\ \E hour \in StartHours : gen = [NoData EXCEPT !.ts = hour]

\* one timestamp of the loop of generate_pump_data
GeneratePumpHour ==
    /\ Len(gen.data) < MaxTimestamps * GeneratorPumps
    /\ \E used \in Loads :
          gen' = [ts   |-> (gen.ts + 1) % 24,
                  data |-> gen.data \o PumpRows(gen.ts, used)]
    /\ UNCHANGED <<demand, pumps, tariff, solution, call, cmp, lp>>

NextGenerator == GeneratePumpHour

SpecGenerator == InitGenerator /\ [][NextGenerator]_vars

-----------------------------------------------------------------------------
(* Properties *)

\* the solve left values in the variables of the problem
Solved == lp # None /\ lp[1].values # None
LpHorizon == lp[1].horizon
LpValues == lp[1].values[1]

\* optimize_schedule has run
Called == call.outcome # "none"
\* optimize_schedule has run and did not hand back a solution
Failed == Called /\ call.ret = None

TotalCapacity ==
    SumTo([i \in DOMAIN pumps |-> pumps[i].capacity_m3h], Len(pumps))

Supply(col) == PumpSum(col.status, "capacity_m3h")

\* start-ups of pump p over all hours of the assignment
StartupsOf(a, p) == SumTo([i \in 1..Len(a) |-> a[i].startup[p]], Len(a))

PenaltyDue(power) ==
    Max(0, tariff.penalty_rate * (power - tariff.subscribed_power))

\* C1: in every assignment the problem accepts, optimal or not, the summed
\* capacity of the active pumps covers the demand of every hour of the
\* effective horizon.
C1_DemandCoverage ==
    Solved => \A t \in Range(LpHorizon) : Supply(LpValues[t + 1]) >= demand[t + 1]

\* an accepted assignment that over-supplies a positive demand
C1_Witness ==
    /\ Solved
    /\ \E t \in Range(LpHorizon) :
          demand[t + 1] > 0 /\ Supply(LpValues[t + 1]) > demand[t + 1]

\* C2 as stated: in an optimal solution an hour without demand has no pump
\* active, no energy cost and no penalty.
C2_ZeroDemandIdle ==
    (call.status = "Optimal" /\ solution # None) =>
        \A i \in DOMAIN solution[1].schedule :
            LET rec == solution[1].schedule[i]
            IN  rec.demand_m3h = 0 =>
                    /\ rec.pumps_active = <<>>
                    /\ rec.energy_cost_fcfa = 0
                    /\ rec.penalty_fcfa = 0

\* C2 amended: in an optimal solution a pump that is ON in an hour without
\* demand is ON in the next hour as well; in particular no pump is ON in a
\* last hour without demand.
C2_ZeroDemandKeptRunning ==
    (call.status = "Optimal" /\ solution # None) =>
        LET schedule == solution[1].schedule
        IN  \A i \in DOMAIN schedule : \A p \in PumpIds :
                (schedule[i].demand_m3h = 0 /\ schedule[i].pumps_status[p] = "ON") =>
                    /\ i < Len(schedule)
                    /\ schedule[i + 1].pumps_status[p] = "ON"

\* an optimal schedule that switches every pump off in an hour without
\* demand between two hours that need a pump
C2_Witness ==
    /\ call.status = "Optimal"
    /\ solution # None
    /\ LET schedule == solution[1].schedule
       IN  \E i \in DOMAIN schedule :
              /\ 1 < i
              /\ i < Len(schedule)
              /\ schedule[i].demand_m3h = 0
              /\ schedule[i].pumps_active = <<>>
              /\ schedule[i - 1].pumps_active # <<>>
              /\ schedule[i + 1].pumps_active # <<>>

\* C3: in every accepted solution each pump starts at most MaxStartups times
\* over all hours of the effective horizon.
C3_StartupBudget ==
    Solved => \A p \in PumpIds : StartupsOf(LpValues, p) <= MaxStartups

\* C4: in every optimal solution the penalty of each hour equals
\* max(0, penalty_rate * (total_power - subscribed_power)), in the variables
\* and in the extracted records; it is 0 when the power stays within the
\* subscription.
C4_PenaltyBinds ==
    (call.status = "Optimal" /\ Solved /\ solution # None) =>
        \A t \in Range(LpHorizon) :
            LET col == LpValues[t + 1]
                rec == solution[1].schedule[t + 1]
            IN  /\ col.penalty = PenaltyDue(col.total_power)
                /\ rec.penalty_fcfa = PenaltyDue(rec.total_power_kw)
                /\ (rec.total_power_kw <= tariff.subscribed_power => rec.penalty_fcfa = 0)

\* an optimal schedule with an hour above the subscribed power and an hour
\* within it
C4_Witness ==
    /\ call.status = "Optimal"
    /\ solution # None
    /\ \E i, j \in DOMAIN solution[1].schedule :
          /\ solution[1].schedule[i].total_power_kw > tariff.subscribed_power
          /\ solution[1].schedule[i].penalty_fcfa > 0
          /\ solution[1].schedule[j].total_power_kw <= tariff.subscribed_power

\* C5: a comparison against a baseline whose cost sums to 0 returns
\* savings_percent = 0 and completes normally.
C5_SavingsGuard ==
    (cmp # None /\ cmp[1].ret # None /\ cmp[1].ret[1].baseline_cost = 0) =>
        /\ cmp[1].outcome = "returned"
        /\ FloatIsZero(cmp[1].ret[1].savings_percent)

\* C6: an incumbent that was not proven optimal is still returned as a
\* schedule, tagged as not optimal.
C6_IncumbentReturned ==
    (Called /\ call.status = "Not Solved") =>
        /\ call.ret # None
        /\ call.ret[1].status # "Optimal"

\* C7: a request with an empty roster or a horizon that is not positive is
\* rejected before a problem is formulated or solved and yields no schedule.
C7_InputRejected ==
    (Called /\ (Len(pumps) = 0 \/ call.horizon_hours <= 0)) =>
        /\ lp = None
        /\ solution = None
        /\ call.ret = None

\* C8: when optimize_schedule does not succeed, the caller receives a failure
\* that names its kind, and no schedule exists.
C8_TaggedFailure ==
    Failed =>
        /\ call.outcome \in { "Infeasible", "Unbounded", "InvalidInput" }
        /\ solution = None

\* C9: when the demand of some hour of the effective horizon exceeds the
\* summed capacity of all pumps, the solve status is Infeasible and
\* optimize_schedule produces no schedule.
C9_ExcessDemandInfeasible ==
    (Called /\ \E t \in Range(call.horizon) : demand[t + 1] > TotalCapacity) =>
        /\ call.status = "Infeasible"
        /\ call.outcome = "returned"
        /\ call.ret = None
        /\ solution = None

\* a request on a non-empty roster whose capacity an hour's demand exceeds
C9_Witness ==
    /\ Called
    /\ Len(pumps) > 0
    /\ \E t \in Range(call.horizon) : demand[t + 1] > TotalCapacity
    /\ call.status = "Infeasible"

\* C10: a forecast shorter than the requested horizon makes its length the
\* effective horizon; a returned schedule has one record per hour of the
\* effective horizon, hours 0, 1, ... in order, and exactly horizon_hours
\* records when the forecast is long enough.
C10_Truncation ==
    Called =>
        /\ (Len(demand) < call.horizon_hours => call.horizon = Len(demand))
        /\ (call.ret # None =>
              LET schedule == call.ret[1].schedule
              IN  /\ (Len(demand) < call.horizon_hours => Len(schedule) = Len(demand))
                  /\ (Len(demand) >= call.horizon_hours => Len(schedule) = call.horizon_hours)
                  /\ \A i \in DOMAIN schedule : schedule[i].hour = i - 1)

\* a schedule returned for a truncated horizon of at least two hours
C10_Witness ==
    /\ call.ret # None
    /\ Len(demand) < call.horizon_hours
    /\ Len(call.ret[1].schedule) = Len(demand)
    /\ Len(demand) >= 2

\* C11: every hour of a returned schedule is billed at the peak tariff
\* exactly when its hour of day, the hour index modulo 24, lies in 7..22,
\* and at the off-peak tariff otherwise, the hours from 24 on included.
C11_PeakByHourOfDay ==
    (Called /\ call.ret # None) =>
        \A i \in DOMAIN call.ret[1].schedule :
            LET r == call.ret[1].schedule[i]
                hour_of_day == r.hour % 24
            IN  r.tariff_fcfa_kwh =
                    IF hour_of_day >= PeakStart /\ hour_of_day < PeakEnd
                    THEN tariff.peak ELSE tariff.offpeak

\* C12: the objective an optimal solve minimised charges each start-up the
\* startup_cost of the tariff given to the optimizer: its value is the sum
\* over the hours of power * tariff + penalty + start-ups * startup_cost.
C12_StartupCostFromTariff ==
    (Solved /\ lp[1].status = "Optimal") =>
        lp[1].objective =
            SumTo([i \in 1..Len(LpValues) |->
                      LET col == LpValues[i]
                      IN  col.total_power * TariffAt(i - 1)
                          + col.penalty
                          + PumpCount(col.startup) * tariff.startup_cost],
                  Len(LpValues))

\* C13: after any sequence of optimize_schedule calls on one optimizer, a
\* comparison evaluates only the schedule of the most recent call, and
\* returns None when that call returned no schedule, whatever earlier calls
\* produced.
C13_NoStaleSolution ==
    (Called /\ cmp # None) =>
        /\ (call.outcome = "returned" /\ call.ret = None => cmp[1].ret = None)
        /\ (cmp[1].ret # None =>
              /\ Solved
              /\ cmp[1].ret[1].schedule
                    = Extract(LpValues, LpHorizon, lp[1].status).schedule)

\* the hours a baseline table covers
BaselineHours(rows) == Cardinality({ rows[i].hour : i \in DOMAIN rows })

\* the sum of a column over the rows of the hours before H
WindowSum(rows, field, H) ==
    SumTo([i \in DOMAIN rows |-> IF rows[i].hour < H THEN rows[i][field] ELSE 0],
          Len(rows))

\* C14: a comparison sums baseline cost, energy and penalty over exactly
\* the rows of the first H baseline hours, H being the number of records of
\* the optimized schedule, whatever the size of the optimizer's roster.
C14_BaselineWindow ==
    (cmp # None /\ cmp[1].ret # None) =>
        LET r    == cmp[1].ret[1]
            rows == cmp[1].baseline_data
            H    == Len(r.schedule)
        IN  /\ r.baseline_cost = WindowSum(rows, "total_cost_fcfa", H)
            /\ r.energy_savings_kwh
                 = WindowSum(rows, "power_kw", H) - solution[1].total_energy
            /\ r.penalty_reduction
                 = WindowSum(rows, "penalty_fcfa", H) - solution[1].total_penalties

\* C15: a baseline covering fewer hours than the optimized schedule, or a
\* forecast shorter than the requested horizon, is truncated to the shorter
\* length with a warning, never silently.
C15_TruncationWarned ==
    /\ (Called /\ Len(demand) < call.horizon_hours) =>
          call.horizon = Len(demand) /\ call.warned
    /\ (cmp # None /\ cmp[1].ret # None
          /\ BaselineHours(cmp[1].baseline_data) < Len(cmp[1].ret[1].schedule)) =>
          cmp[1].warned

\* C16: with non-negative tariff and penalty rates the objective is bounded
\* below by 0 over the feasible set: the solve status is never Unbounded
\* and every assignment the solve leaves has a non-negative objective.
C16_NeverUnbounded ==
    (Called /\ tariff.peak >= 0 /\ tariff.offpeak >= 0 /\ tariff.penalty_rate >= 0) =>
        /\ call.status # "Unbounded"
        /\ (Solved => lp[1].objective >= 0)

\* a solve whose assignment pays a penalty above the subscribed power
C16_Witness ==
    /\ Solved
    /\ call.status = "Optimal"
    /\ \E i \in 1..Len(LpValues) : LpValues[i].penalty > 0
    /\ lp[1].objective > 0

\* the elements of a sequence
Elems(seq) == { seq[i] : i \in DOMAIN seq }

\* C17: in every returned schedule each record has energy cost = power *
\* tariff and total cost = energy cost + penalty, pumps_active lists exactly
\* the pumps whose status is ON, and the totals of the solution are the sums
\* of the records' total cost, power and penalty.
C17_ExtractionConsistent ==
    (Called /\ call.ret # None) =>
        LET sol      == call.ret[1]
            schedule == sol.schedule
            n        == Len(schedule)
        IN  /\ \A i \in 1..n :
                  LET r == schedule[i]
                  IN  /\ r.energy_cost_fcfa = r.total_power_kw * r.tariff_fcfa_kwh
                      /\ r.total_cost_fcfa = r.energy_cost_fcfa + r.penalty_fcfa
                      /\ Elems(r.pumps_active) = { p \in PumpIds : r.pumps_status[p] = "ON" }
                      /\ Len(r.pumps_active) = Cardinality(Elems(r.pumps_active))
            /\ sol.total_cost = SumTo([i \in 1..n |-> schedule[i].total_cost_fcfa], n)
            /\ sol.total_energy = SumTo([i \in 1..n |-> schedule[i].total_power_kw], n)
            /\ sol.total_penalties = SumTo([i \in 1..n |-> schedule[i].penalty_fcfa], n)

\* a returned schedule of several hours with a penalty, an idle hour and an
\* hour with one pump of two ON
C17_Witness ==
    /\ Called
    /\ call.ret # None
    /\ Len(call.ret[1].schedule) >= 2
    /\ call.ret[1].total_penalties > 0
    /\ \E i \in DOMAIN call.ret[1].schedule : call.ret[1].schedule[i].pumps_active = <<>>
    /\ Len(pumps) = 2
    /\ \E i \in DOMAIN call.ret[1].schedule : Len(call.ret[1].schedule[i].pumps_active) = 1

\* C18: in every optimal solution the start-up indicator of a pump at an
\* hour t >= 1 is 1 exactly when the pump is OFF at t-1 and ON at t, and
\* every indicator of hour 0 is 0, also for a pump that is ON at hour 0.
C18_StartupExact ==
    (Solved /\ lp[1].status = "Optimal") =>
        \A i \in 1..Len(LpValues) : \A p \in PumpIds :
            LpValues[i].startup[p] =
                IF i > 1 /\ LpValues[i - 1].status[p] = 0 /\ LpValues[i].status[p] = 1
                THEN 1 ELSE 0

\* an optimal solution with a pump ON at hour 0 that stops and starts again
C18_Witness ==
    /\ Solved
    /\ lp[1].status = "Optimal"
    /\ Len(LpValues) >= 2
    /\ \E p \in PumpIds :
          /\ LpValues[1].status[p] = 1
          /\ LpValues[1].startup[p] = 0
          /\ \E i \in 2..Len(LpValues) :
                /\ LpValues[i - 1].status[p] = 0
                /\ LpValues[i].status[p] = 1
                /\ LpValues[i].startup[p] = 1

\* C19: for a non-empty roster and a positive effective horizon the problem
\* is infeasible exactly when some hour's demand exceeds the summed capacity
\* of all pumps; the start-up budget never makes it infeasible.
C19_FeasibleIffCapacity ==
    (Called /\ Len(pumps) > 0 /\ call.horizon > 0) =>
        (call.status = "Infeasible"
            <=> \E t \in Range(call.horizon) : demand[t + 1] > TotalCapacity)

\* a feasible request whose demand comes in more than 8 separate blocks
\* within the hours of the start-up budget
C19_Witness ==
    /\ Called
    /\ Len(pumps) > 0
    /\ Cardinality({ t \in BudgetHours(call.horizon) :
                        t >= 1 /\ demand[t] = 0 /\ demand[t + 1] > 0 }) > MaxStartups
    /\ call.status = "Optimal"

\* the start-up indicators set in an assignment, all pumps and hours
TotalStartups(a) == SumTo([i \in 1..Len(a) |-> PumpCount(a[i].startup)], Len(a))

\* C20: the total_cost of every returned solution is the minimised objective
\* minus 5000 per start-up of the solution: it is at most the objective,
\* and equal to it exactly when the solution has no start-up.
C20_CostExcludesStartups ==
    (Called /\ call.ret # None) =>
        LET total_cost == call.ret[1].total_cost
            objective  == lp[1].objective
            n          == TotalStartups(LpValues)
        IN  /\ total_cost = objective - StartupCost * n
            /\ total_cost <= objective
            /\ (total_cost = objective <=> n = 0)

\* a returned solution that starts pumps twice or more, in a peak hour too
C20_Witness ==
    /\ Called
    /\ call.ret # None
    /\ TotalStartups(LpValues) >= 2
    /\ \E i \in 1..Len(LpValues) :
          PumpCount(LpValues[i].startup) > 0 /\ TariffAt(i - 1) = tariff.peak

\* C21: whenever the solve status is Optimal, optimize_schedule returns the
\* solution record without raising, also when the optimized total cost is
\* 0; and self.solution holds a solution only when the call returned it.
C21_CompletesOnOptimal ==
    /\ (Called /\ call.status = "Optimal") =>
          /\ call.outcome = "returned"
          /\ call.ret # None
          /\ call.ret = solution
    /\ (Called /\ solution # None) => call.ret = solution

\* the rows of the i-th timestamp of a generated table
RowsAt(data, i) == SubSeq(data, (i - 1) * GeneratorPumps + 1, i * GeneratorPumps)

\* the sum of a column over rows
ColumnSum(rows, field) == SumTo([k \in DOMAIN rows |-> rows[k][field]], Len(rows))

\* C22: for every hour generate_pump_data writes, the penalty_fcfa of the
\* hour's rows sum to the hour's overage penalty, max(0, total power -
\* subscribed power) * penalty rate, and their total_cost_fcfa sum to the
\* hour's energy cost plus that penalty, however many pumps are ON.
C22_PenaltyConserved ==
    \A i \in 1..(Len(gen.data) \div GeneratorPumps) :
        LET rows        == RowsAt(gen.data, i)
            total_power == ColumnSum(rows, "power_kw")
            overage     == IF total_power > subscribed_power
                           THEN (total_power - subscribed_power) * penalty_rate
                           ELSE 0
        IN  /\ ColumnSum(rows, "penalty_fcfa") = overage
            /\ ColumnSum(rows, "total_cost_fcfa")
                  = total_power * rows[1].tariff_fcfa_kwh + overage

====
